---- MODULE Spec2Model ----
(***************************************************************************)
(* Model of tutorial/llm_factory.py: the module-level load_dotenv() call,  *)
(* the LLMFactory constructor and LLMFactory.get_llm, which reads five     *)
(* environment variables, validates three required fields, strips the      *)
(* trailing '/' characters of the endpoint and constructs the client.      *)
(*                                                                         *)
(* A Python str is a sequence of characters; Python None is the value      *)
(* None below, which differs from every str the model builds.  os.environ  *)
(* is a function from the variable names to str or None (None = unset).    *)
(* get_llm is modelled one statement at a time so that several threads     *)
(* can be interleaved between any two environment reads.                   *)
(***************************************************************************)
EXTENDS Integers, Sequences, FiniteSets, TLC

VARIABLES modulePc, environ, loads, llm, pc, frame, started, handles, done

vars == <<modulePc, environ, loads, llm, pc, frame, started, handles, done>>

(* ------------------------------ bounds --------------------------------- *)

MaxLen == 3

MaxCalls == 2

MaxFactories == 2

NumThreads == 2

(* ----------------------------- constants ------------------------------- *)

Temperature == 0

None == <<"None">>

KEY == "AZURE_OPENAI_KEY"

VERSION == "AZURE_OPENAI_VERSION"

ENDPOINT == "AZURE_OPENAI_ENDPOINT"

DEPLOYMENT_NAME == "AZURE_OPENAI_DEPLOYMENT_NAME"

DEPLOYMENT == "AZURE_OPENAI_DEPLOYMENT"

EnvNames == {KEY, VERSION, ENDPOINT, DEPLOYMENT_NAME, DEPLOYMENT}

DefaultApiVersion == <<"2024-02-15-preview">>

ErrorPrefix == "Missing required environment variables: "

Separator == ", "

Threads == 1..NumThreads

(* ------------------------- input value domains ------------------------- *)

RECURSIVE StrUpTo(_, _)
StrUpTo(chars, n) ==
    IF n = 0 THEN {<<>>}
    ELSE LET shorter == StrUpTo(chars, n - 1)
         IN  shorter \cup {Append(s, c) : s \in shorter, c \in chars}

EndpointValues == {None} \cup StrUpTo({"/", "x"}, MaxLen)

EnvValues(name) ==
    CASE name = KEY             -> {None, <<>>, <<"k">>}
      [] name = VERSION         -> {None, <<>>, <<"v">>}
      [] name = ENDPOINT        -> EndpointValues
      [] name = DEPLOYMENT_NAME -> {None, <<>>, <<"a">>}
      [] name = DEPLOYMENT      -> {None, <<>>, <<"b">>}

Environment(k, v, e, dn, d) ==
    [n \in EnvNames |->
        CASE n = KEY             -> k
          [] n = VERSION         -> v
          [] n = ENDPOINT        -> e
          [] n = DEPLOYMENT_NAME -> dn
          [] n = DEPLOYMENT      -> d]

Environments ==
    {Environment(k, v, e, dn, d) :
        k \in EnvValues(KEY), v \in EnvValues(VERSION), e \in EnvValues(ENDPOINT),
        dn \in EnvValues(DEPLOYMENT_NAME), d \in EnvValues(DEPLOYMENT)}

(* The environments of the concurrent runs: every variable unset or set to *)
(* one non-empty value, the primary deployment name never set alone.       *)
ConcEnvironments ==
    {Environment(k, v, e, dn, d) :
        k \in {None, <<"k">>}, v \in {None, <<"v">>}, e \in {None, <<"x", "/">>},
        dn \in {None, <<"a">>}, d \in {None, <<"b">>}}
    \ {Environment(k, v, e, <<"a">>, None) :
        k \in {None, <<"k">>}, v \in {None, <<"v">>}, e \in {None, <<"x", "/">>}}

NoFile == [n \in EnvNames |-> None]

FullFile == Environment(<<"k">>, None, <<"x", "/">>, <<"a">>, None)

DotenvFiles == {NoFile, FullFile}

(* ------------------------------ helpers -------------------------------- *)

Truthy(v) == v # None /\ v # <<>>

Getenv(name) == environ[name]

(* Mutant: os.getenv(name) or default, which also replaces an empty value. *)
GetenvOrDefault(name, default) ==
    IF Truthy(environ[name]) THEN environ[name] ELSE default

GetenvDefault(name, default) ==
    IF environ[name] = None THEN default ELSE environ[name]

(* Mutant: removes one trailing '/' only. *)
RstripOnce(s) ==
    IF s # <<>> /\ s[Len(s)] = "/" THEN SubSeq(s, 1, Len(s) - 1) ELSE s

RECURSIVE Rstrip(_)
Rstrip(s) ==
    IF s = <<>> THEN s
    ELSE IF s[Len(s)] = "/" THEN Rstrip(SubSeq(s, 1, Len(s) - 1))
    ELSE s

RECURSIVE Join(_, _)
Join(names, sep) ==
    IF names = <<>> THEN <<>>
    ELSE IF Len(names) = 1 THEN names
    ELSE <<Head(names), sep>> \o Join(Tail(names), sep)

(* Mutant: stops at the first missing field. *)
MissingFirstOnly(api_key, azure_endpoint, azure_deployment) ==
    IF ~Truthy(api_key) THEN <<KEY>>
    ELSE IF ~Truthy(azure_endpoint) THEN <<ENDPOINT>>
    ELSE IF ~Truthy(azure_deployment) THEN <<DEPLOYMENT_NAME>>
    ELSE <<>>

(* Mutant: the missing list is shared between calls (a class attribute or a *)
(* mutable default) and keeps the names appended by earlier calls.          *)
MissingShared(api_key, azure_endpoint, azure_deployment) ==
    LET errors == {i \in 1..Len(done) : done[i].result.kind = "error"}
        last   == CHOOSE i \in errors : \A j \in errors : j <= i
    IN  (IF errors = {} THEN <<>> ELSE done[last].result.missing)
        \o (IF ~Truthy(api_key) THEN <<KEY>> ELSE <<>>)
        \o (IF ~Truthy(azure_endpoint) THEN <<ENDPOINT>> ELSE <<>>)
        \o (IF ~Truthy(azure_deployment) THEN <<DEPLOYMENT_NAME>> ELSE <<>>)

Missing(api_key, azure_endpoint, azure_deployment) ==
    (IF ~Truthy(api_key) THEN <<KEY>> ELSE <<>>)
    \o (IF ~Truthy(azure_endpoint) THEN <<ENDPOINT>> ELSE <<>>)
    \o (IF ~Truthy(azure_deployment) THEN <<DEPLOYMENT_NAME>> ELSE <<>>)

EnvironmentError(missing) ==
    [kind |-> "error", exc |-> "EnvironmentError", missing |-> missing,
     message |-> <<ErrorPrefix>> \o Join(missing, Separator)]

AzureChatOpenAI(id, api_key, api_version, azure_endpoint, azure_deployment, temperature) ==
    [kind |-> "handle", id |-> id, api_key |-> api_key,
     api_version |-> api_version, azure_endpoint |-> azure_endpoint,
     azure_deployment |-> azure_deployment, temperature |-> temperature]

IdleFrame == [self |-> 0, call |-> 0, env |-> NoFile, api_key |-> None, api_version |-> None,
              azure_endpoint |-> None, azure_deployment |-> None]

Returned(t, result) ==
    [self |-> frame[t].self, call |-> frame[t].call,
     env |-> frame[t].env, result |-> result]

(* ------------------------------- Init ---------------------------------- *)

ProcessStart ==
    /\ modulePc = "load_dotenv"
    /\ loads = 0
    /\ llm = <<>>
    /\ pc = [t \in Threads |-> "idle"]
    /\ frame = [t \in Threads |-> IdleFrame]
    /\ started = 0
    /\ handles = 0
    /\ done = <<>>

Init ==
    /\ environ \in Environments
    /\ ProcessStart

InitConc ==
    /\ environ \in ConcEnvironments
    /\ ProcessStart

(* --------------------------- module import ----------------------------- *)

LoadDotenv ==
    /\ modulePc = "load_dotenv"
    /\ \E file \in DotenvFiles :
          environ' = [n \in EnvNames |->
                         IF environ[n] = None THEN file[n] ELSE environ[n]]
    /\ loads' = loads + 1
    /\ modulePc' = "ready"
    /\ UNCHANGED <<llm, pc, frame, started, handles, done>>

(* --------------------------- LLMFactory() ------------------------------ *)

NewFactory ==
    /\ modulePc = "ready"
    /\ Len(llm) < MaxFactories
    /\ llm' = Append(llm, None)
    /\ UNCHANGED <<modulePc, environ, loads, pc, frame, started, handles, done>>

(* ------------------------------ get_llm -------------------------------- *)

(* Mutant: get_llm loads the environment file itself on every call. *)
GetLlmLoading(t, f) ==
    /\ modulePc = "ready"
    /\ pc[t] = "idle"
    /\ f \in 1..Len(llm)
    /\ started < MaxCalls
    /\ started' = started + 1
    /\ loads' = loads + 1
    /\ frame' = [frame EXCEPT ![t] = [IdleFrame EXCEPT !.self = f, !.call = started + 1,
                                                     !.env = environ]]
    /\ pc' = [pc EXCEPT ![t] = "L13"]
    /\ UNCHANGED <<modulePc, environ, llm, handles, done>>

GetLlm(t, f) ==
    /\ modulePc = "ready"
    /\ pc[t] = "idle"
    /\ f \in 1..Len(llm)
    /\ started < MaxCalls
    /\ started' = started + 1
    /\ frame' = [frame EXCEPT ![t] = [IdleFrame EXCEPT !.self = f, !.call = started + 1,
                                                     !.env = environ]]
    /\ pc' = [pc EXCEPT ![t] = "L13"]
    /\ UNCHANGED <<modulePc, environ, loads, llm, handles, done>>

ReadKey(t) ==
    /\ pc[t] = "L13"
    /\ frame' = [frame EXCEPT ![t].api_key = Getenv(KEY)]
    /\ pc' = [pc EXCEPT ![t] = "L14"]
    /\ UNCHANGED <<modulePc, environ, loads, llm, started, handles, done>>

ReadVersion(t) ==
    /\ pc[t] = "L14"
    /\ frame' = [frame EXCEPT ![t].api_version = GetenvDefault(VERSION, DefaultApiVersion)]
    /\ pc' = [pc EXCEPT ![t] = "L15"]
    /\ UNCHANGED <<modulePc, environ, loads, llm, started, handles, done>>

ReadEndpoint(t) ==
    /\ pc[t] = "L15"
    /\ frame' = [frame EXCEPT ![t].azure_endpoint = Getenv(ENDPOINT)]
    /\ pc' = [pc EXCEPT ![t] = "L17"]
    /\ UNCHANGED <<modulePc, environ, loads, llm, started, handles, done>>

(* Mutant: no short circuit, the secondary name is always read afterwards. *)
ReadDeploymentNameThenFallback(t) ==
    /\ pc[t] = "L17"
    /\ frame' = [frame EXCEPT ![t].azure_deployment = Getenv(DEPLOYMENT_NAME)]
    /\ pc' = [pc EXCEPT ![t] = "L18"]
    /\ UNCHANGED <<modulePc, environ, loads, llm, started, handles, done>>

ReadDeploymentName(t) ==
    /\ pc[t] = "L17"
    /\ frame' = [frame EXCEPT ![t].azure_deployment = Getenv(DEPLOYMENT_NAME)]
    /\ pc' = [pc EXCEPT ![t] = IF Truthy(Getenv(DEPLOYMENT_NAME)) THEN "L22" ELSE "L18"]
    /\ UNCHANGED <<modulePc, environ, loads, llm, started, handles, done>>

ReadDeployment(t) ==
    /\ pc[t] = "L18"
    /\ frame' = [frame EXCEPT ![t].azure_deployment = Getenv(DEPLOYMENT)]
    /\ pc' = [pc EXCEPT ![t] = "L22"]
    /\ UNCHANGED <<modulePc, environ, loads, llm, started, handles, done>>

ValidateRaise(t) ==
    /\ pc[t] = "L22"
    /\ LET missing == Missing(frame[t].api_key, frame[t].azure_endpoint,
                              frame[t].azure_deployment)
       IN  /\ missing # <<>>
           /\ done' = Append(done, Returned(t, EnvironmentError(missing)))
    /\ frame' = [frame EXCEPT ![t] = IdleFrame]
    /\ pc' = [pc EXCEPT ![t] = "idle"]
    /\ UNCHANGED <<modulePc, environ, loads, llm, started, handles>>

(* Mutant: the check of the missing list is skipped. *)
ValidatePassUnchecked(t) ==
    /\ pc[t] = "L22"
    /\ pc' = [pc EXCEPT ![t] = "L36"]
    /\ UNCHANGED <<modulePc, environ, loads, llm, frame, started, handles, done>>

ValidatePass(t) ==
    /\ pc[t] = "L22"
    /\ Missing(frame[t].api_key, frame[t].azure_endpoint,
               frame[t].azure_deployment) = <<>>
    /\ pc' = [pc EXCEPT ![t] = "L36"]
    /\ UNCHANGED <<modulePc, environ, loads, llm, frame, started, handles, done>>

Normalize(t) ==
    /\ pc[t] = "L36"
    /\ frame' = [frame EXCEPT ![t].azure_endpoint = Rstrip(frame[t].azure_endpoint)]
    /\ pc' = [pc EXCEPT ![t] = "L38"]
    /\ UNCHANGED <<modulePc, environ, loads, llm, started, handles, done>>

(* Mutant: the handle is cached in self.llm and returned by later calls. *)
ConstructCaching(t) ==
    /\ pc[t] = "L38"
    /\ LET self  == frame[t].self
           fresh == AzureChatOpenAI(handles + 1, frame[t].api_key, frame[t].api_version,
                                    frame[t].azure_endpoint, frame[t].azure_deployment,
                                    Temperature)
       IN  IF llm[self] = None
           THEN /\ llm' = [llm EXCEPT ![self] = <<"AzureChatOpenAI", handles + 1>>]
                /\ handles' = handles + 1
                /\ done' = Append(done, Returned(t, fresh))
           ELSE /\ UNCHANGED <<llm, handles>>
                /\ LET cached == CHOOSE i \in 1..Len(done) :
                                     /\ done[i].result.kind = "handle"
                                     /\ done[i].result.id = llm[self][2]
                   IN  done' = Append(done, Returned(t, done[cached].result))
    /\ frame' = [frame EXCEPT ![t] = IdleFrame]
    /\ pc' = [pc EXCEPT ![t] = "idle"]
    /\ UNCHANGED <<modulePc, environ, loads, started>>

Construct(t) ==
    /\ pc[t] = "L38"
    /\ handles' = handles + 1
    /\ done' = Append(done, Returned(t,
                  AzureChatOpenAI(handles + 1, frame[t].api_key, frame[t].api_version,
                                  frame[t].azure_endpoint, frame[t].azure_deployment,
                                  Temperature)))
    /\ frame' = [frame EXCEPT ![t] = IdleFrame]
    /\ pc' = [pc EXCEPT ![t] = "idle"]
    /\ UNCHANGED <<modulePc, environ, loads, llm, started>>

Step(t) ==
    \/ \E f \in 1..MaxFactories : GetLlm(t, f)
    \/ ReadKey(t)
    \/ ReadVersion(t)
    \/ ReadEndpoint(t)
    \/ ReadDeploymentName(t)
    \/ ReadDeployment(t)
    \/ ValidateRaise(t)
    \/ ValidatePass(t)
    \/ Normalize(t)
    \/ Construct(t)

(* One caller: get_llm runs to completion before the next call starts. *)
Next ==
    \/ LoadDotenv
    \/ NewFactory
    \/ Step(1)

Spec == Init /\ [][Next]_vars

(* Several threads call get_llm with no coordination. *)
NextConc ==
    \/ LoadDotenv
    \/ NewFactory
    \/ \E t \in Threads : Step(t)

SpecConc == InitConc /\ [][NextConc]_vars

(* ----------------------- vocabulary of the properties ------------------- *)

Calls == 1..Len(done)

InFlight == {t \in Threads : pc[t] # "idle"}

IsHandle(i) == done[i].result.kind = "handle"

IsError(i) == done[i].result.kind = "error"

Present(v) == v # None /\ Len(v) > 0

ExpectedMissing(env) ==
    {n \in {KEY, ENDPOINT} : ~Present(env[n])}
    \cup (IF ~Present(env[DEPLOYMENT_NAME]) /\ ~Present(env[DEPLOYMENT])
          THEN {DEPLOYMENT_NAME} ELSE {})

ReportedNames(r) ==
    IF r.kind = "error"
    THEN {r.message[k] : k \in 1..Len(r.message)} \cap EnvNames
    ELSE {}

ConfigOf(r) == [f \in DOMAIN r \ {"id"} |-> r[f]]

Stripped(s) ==
    LET k == CHOOSE k \in 0..Len(s) :
                 /\ k = 0 \/ s[k] # "/"
                 /\ \A j \in (k + 1)..Len(s) : s[j] = "/"
    IN  SubSeq(s, 1, k)

AloneOutcome(env) ==
    IF ExpectedMissing(env) # {}
    THEN [kind |-> "error", names |-> ExpectedMissing(env)]
    ELSE [kind |-> "handle",
          api_key |-> env[KEY],
          api_version |-> IF env[VERSION] = None THEN DefaultApiVersion ELSE env[VERSION],
          azure_endpoint |-> Stripped(env[ENDPOINT]),
          azure_deployment |-> IF Present(env[DEPLOYMENT_NAME])
                               THEN env[DEPLOYMENT_NAME] ELSE env[DEPLOYMENT],
          temperature |-> Temperature]

Outcome(r) ==
    IF r.kind = "error"
    THEN [kind |-> "error", names |-> ReportedNames(r)]
    ELSE [kind |-> "handle", api_key |-> r.api_key, api_version |-> r.api_version,
          azure_endpoint |-> r.azure_endpoint, azure_deployment |-> r.azure_deployment,
          temperature |-> r.temperature]

(* ------------------------------ properties ----------------------------- *)

(* C1: for every combination of unset, empty and non-empty required         *)
(* variables, the names a call reports as missing are exactly the required  *)
(* fields that are not present (none for a call that returns a handle); a   *)
(* call with all three missing names all three in its one message.          *)
C1_MissingExactlyAbsent ==
    \A i \in Calls : ReportedNames(done[i].result) = ExpectedMissing(done[i].env)

C1_AllThreeReported ==
    \E i \in Calls :
        /\ IsError(i)
        /\ ExpectedMissing(done[i].env) = {KEY, ENDPOINT, DEPLOYMENT_NAME}
        /\ ReportedNames(done[i].result) = {KEY, ENDPOINT, DEPLOYMENT_NAME}

(* C2: whenever get_llm returns a handle, the credential, API version,      *)
(* endpoint and deployment passed to the constructor are non-empty strings  *)
(* and the endpoint does not end with '/'.                                  *)
C2_HandleValuesNonEmpty ==
    \A i \in Calls :
        IsHandle(i) =>
            LET r == done[i].result
            IN  /\ Present(r.api_key)
                /\ Present(r.api_version)
                /\ Present(r.azure_endpoint)
                /\ Present(r.azure_deployment)
                /\ r.azure_endpoint[Len(r.azure_endpoint)] # "/"

(* C3: the deployment is the primary variable's value when that is          *)
(* non-empty, even if the secondary is set too, else the secondary's value; *)
(* the field is reported missing only if neither is non-empty.              *)
C3_DeploymentPrimaryThenSecondary ==
    \A i \in Calls :
        LET r         == done[i].result
            primary   == done[i].env[DEPLOYMENT_NAME]
            secondary == done[i].env[DEPLOYMENT]
        IN  /\ IsHandle(i) =>
                   /\ Present(primary) \/ Present(secondary)
                   /\ r.azure_deployment = IF Present(primary) THEN primary ELSE secondary
            /\ IsError(i) =>
                   (DEPLOYMENT_NAME \in ReportedNames(r)
                        <=> ~Present(primary) /\ ~Present(secondary))

C3_PrimaryWinsOverSecondary ==
    \E i \in Calls :
        /\ IsHandle(i)
        /\ done[i].env[DEPLOYMENT_NAME] = <<"a">>
        /\ done[i].env[DEPLOYMENT] = <<"b">>
        /\ done[i].result.azure_deployment = <<"a">>

(* C4: a handle is constructed if and only if no required field is missing; *)
(* a failing call ends with one error and never reaches the constructor,    *)
(* and the required values of a handle come from the environment, never     *)
(* from a default.                                                          *)
C4_HandleIffNothingMissing ==
    /\ \A i \in Calls :
          LET r == done[i].result
              env == done[i].env
          IN  /\ IsHandle(i) <=> ExpectedMissing(env) = {}
              /\ IsError(i) <=> ExpectedMissing(env) # {}
              /\ IsHandle(i) =>
                    /\ r.api_key = env[KEY]
                    /\ r.azure_deployment \in {env[DEPLOYMENT_NAME], env[DEPLOYMENT]}
                    /\ Len(r.azure_endpoint) <= Len(env[ENDPOINT])
                    /\ r.azure_endpoint = SubSeq(env[ENDPOINT], 1, Len(r.azure_endpoint))
    /\ \A t \in Threads : pc[t] \in {"L36", "L38"} => ExpectedMissing(frame[t].env) = {}
    /\ handles = Cardinality({i \in Calls : IsHandle(i)})
    /\ \A i, j \in Calls : i # j => done[i].call # done[j].call
    /\ Len(done) + Cardinality(InFlight) = started

C4_FailedBeforeConstructor ==
    /\ done # <<>>
    /\ \A i \in Calls : IsError(i)
    /\ Len(done) = started
    /\ handles = 0

(* C5: the endpoint passed to the constructor is the environment's endpoint *)
(* with every trailing '/' removed and nothing else changed; an endpoint    *)
(* without a trailing '/' is passed unchanged, and stripping the result     *)
(* again changes nothing.                                                   *)
C5_EndpointTrailingStripped ==
    \A i \in Calls :
        IsHandle(i) =>
            LET given  == done[i].env[ENDPOINT]
                passed == done[i].result.azure_endpoint
            IN  /\ Len(passed) <= Len(given)
                /\ passed = SubSeq(given, 1, Len(passed))
                /\ \A k \in (Len(passed) + 1)..Len(given) : given[k] = "/"
                /\ passed = <<>> \/ passed[Len(passed)] # "/"
                /\ given[Len(given)] # "/" => passed = given
                /\ Rstrip(passed) = passed

C5_SeveralSeparatorsStripped ==
    \E i \in Calls :
        /\ IsHandle(i)
        /\ done[i].env[ENDPOINT] = <<"x", "/", "/">>
        /\ done[i].result.azure_endpoint = <<"x">>

(* C6: the API version passed to the constructor is "2024-02-15-preview"    *)
(* when AZURE_OPENAI_VERSION is unset and the literal value when it is set; *)
(* the API version is never reported missing and never causes an error.     *)
C6_ApiVersionDefaultOrLiteral ==
    \A i \in Calls :
        LET r == done[i].result
            version == done[i].env[VERSION]
        IN  /\ IsHandle(i) =>
                   r.api_version = IF version = None THEN <<"2024-02-15-preview">> ELSE version
            /\ VERSION \notin ReportedNames(r)
            /\ IsError(i) =>
                   \/ \E n \in {KEY, ENDPOINT} : ~Present(done[i].env[n])
                   \/ ~Present(done[i].env[DEPLOYMENT_NAME])
                        /\ ~Present(done[i].env[DEPLOYMENT])

C6_DefaultVersionUsed ==
    \E i \in Calls :
        /\ IsHandle(i)
        /\ done[i].env[VERSION] = None
        /\ done[i].result.api_version = <<"2024-02-15-preview">>

(* C7: two calls made with identical environment state have the same        *)
(* outcome: the same error with the same missing list, or two distinct      *)
(* handles with identical credential, API version, endpoint, deployment     *)
(* and temperature.                                                         *)
C7_SameEnvironmentSameOutcome ==
    \A i, j \in Calls :
        (i # j /\ done[i].env = done[j].env) =>
            /\ ConfigOf(done[i].result) = ConfigOf(done[j].result)
            /\ IsHandle(i) => done[i].result.id # done[j].result.id

C7_TwoCallsCompleted ==
    /\ Len(done) = 2
    /\ done[1].env = done[2].env
    /\ done[1].self = done[2].self
    /\ IsHandle(1)
    /\ IsHandle(2)
    /\ done[1].result.id # done[2].result.id
    /\ done[1].result.azure_endpoint = done[2].result.azure_endpoint

(* C8: get_llm leaves os.environ as it was when the call started and leaves *)
(* self.llm None, whether the call returned a handle or raised.             *)
C8_NoStateRetained ==
    /\ \A f \in 1..Len(llm) : llm[f] = None
    /\ \A i \in Calls : done[i].env = environ
    /\ \A t \in InFlight : frame[t].env = environ

C8_LlmStillNoneAfterHandle ==
    \E i \in Calls :
        /\ IsHandle(i)
        /\ llm[done[i].self] = None
        /\ done[i].env = environ

(* C9: under any interleaving of the statements of concurrent calls, on the *)
(* same or on different factory objects, every call has the outcome it has  *)
(* when run alone, and every successful call gets a handle of its own.      *)
C9_ConcurrentCallsAsAlone ==
    /\ \A i \in Calls : Outcome(done[i].result) = AloneOutcome(done[i].env)
    /\ \A i, j \in Calls :
          (i # j /\ IsHandle(i) /\ IsHandle(j)) => done[i].result.id # done[j].result.id

C9_OverlappingCallsCompleted ==
    /\ Len(done) = 2
    /\ done[1].call = 2
    /\ done[2].call = 1
    /\ done[1].self = done[2].self
    /\ IsHandle(1)
    /\ IsHandle(2)

(* C10: load_dotenv runs exactly once, at import, before any get_llm call   *)
(* reads a variable, and no get_llm call runs it again.                     *)
C10_LoadedOnceBeforeLookups ==
    /\ loads <= 1
    /\ modulePc = "ready" <=> loads = 1
    /\ (started > 0 \/ InFlight # {} \/ done # <<>>) => loads = 1

C10_CallsAfterSingleLoad ==
    /\ started >= 2
    /\ Len(done) >= 2
    /\ loads = 1

====
